---- MODULE Spec2Model ----
(***************************************************************************)
(* Model of the hackathon judge of src/src/index.ts: the extraction        *)
(* cascade of EvaluationWorker.evaluateTask, the report of                 *)
(* EvaluationIntegrator.integrateEvaluations and the fan-out/fan-in of     *)
(* MyAgent.evaluateHackathonIdea.                                          *)
(*                                                                         *)
(* A response text is a sequence of lexical tokens.  Every token stands    *)
(* for a fixed piece of text, given in the comment of its constructor; the *)
(* regular expressions of the source are evaluated over these tokens.      *)
(***************************************************************************)
EXTENDS Integers, Sequences, FiniteSets, TLC

\* ------------------------------------------------------------------------
\* Tokens of a response text
\* ------------------------------------------------------------------------
Tok(k) == [k |-> k, v |-> 0]
LB    == Tok("lb")       \* {
RB    == Tok("rb")       \* }
QSK   == Tok("qsk")      \* "score":<space>
QRK   == Tok("qrk")      \* "reason":<space>
QOK   == Tok("qok")      \* "note":<space>
COMMA == Tok("comma")    \* ,<space>
MINUS == Tok("minus")    \* -
SK    == Tok("sk")       \* score:<space>
EK    == Tok("ek")       \* 評価:<space>
RK    == Tok("rk")       \* reason:<space>
TOPEN == Tok("to")       \* <think>
TCLOSE == Tok("tc")      \* </think>
Num(n) == [k |-> "num", v |-> n]    \* the decimal digits of n >= 0
Str(i) == [k |-> "str", v |-> i]    \* the quoted string "StrText(i)"
Txt(i) == [k |-> "txt", v |-> i]    \* the bare words StrText(i)

\* The strings of the model, by index:
\*   0: the empty string   1: clear rationale   2: x   3: 12 points
StrLen(i) == CASE i = 0 -> 0 [] i = 1 -> 15 [] i = 2 -> 1 [] OTHER -> 9

\* The integer 10^21, the least at which String(n) is in exponent
\* notation ("1e+21"); it is beyond the integers of the model checker and
\* is written as its largest integer.
Sextillion == 2147483647

\* Number of digits of n
NumLen(n) == IF n < 10 THEN 1 ELSE IF n < 100 THEN 2 ELSE IF n < Sextillion THEN 3 ELSE 22

\* Number of characters of a token
CharLen(t) ==
  CASE t.k \in {"lb", "rb", "minus"} -> 1
    [] t.k = "comma" -> 2
    [] t.k = "qsk" -> 9
    [] t.k = "qrk" -> 10
    [] t.k = "qok" -> 8
    [] t.k = "sk" -> 7
    [] t.k = "ek" -> 4
    [] t.k = "rk" -> 8
    [] t.k = "to" -> 7
    [] t.k = "tc" -> 8
    [] t.k = "num" -> NumLen(t.v)
    [] t.k = "str" -> StrLen(t.v) + 2
    [] OTHER -> StrLen(t.v)

\* Tokens whose text starts with a double quote
StartsWithQuote(t) == t.k \in {"qsk", "qrk", "qok", "str"}

\* ------------------------------------------------------------------------
\* Sequence helpers
\* ------------------------------------------------------------------------
Min(a, b) == IF a < b THEN a ELSE b
Max(a, b) == IF a > b THEN a ELSE b

RECURSIVE Concat(_)
Concat(ss) == IF ss = <<>> THEN <<>> ELSE Head(ss) \o Concat(Tail(ss))

\* Least element of a non-empty set of integers
Least(S) == CHOOSE x \in S : \A y \in S : x <= y

\* ------------------------------------------------------------------------
\* Values of a parsed JSON object, and reasons of a result
\* ------------------------------------------------------------------------
Val(t, n, s) == [t |-> t, n |-> n, s |-> s]
Undef == Val("undef", 0, <<>>)
ObjVal == Val("obj", 0, <<>>)
NumVal(n) == Val("num", n, <<>>)
StrVal(i) == Val("str", 0, <<Str(i)>>)
\* text captured by a regular expression: the tokens it spans
RunVal(s) == Val("run", 0, s)
\* the fixed reasons of the source
Fixed(name) == Val(name, 0, <<>>)
NoReasonGiven == Fixed("no_reason_given")       \* 評価理由が提供されませんでした
CriterionEvaluated == Fixed("criterion_evaluated")  \* ${criterion}の評価を実行しました
ParseErrorReason == Fixed("parse_error_midpoint")   \* ...レスポンス解析エラー...中間的な評価...
EmptyReason == Fixed("empty")                    \* ''
BatchErrorReason == Fixed("batch_error")         \* 評価中にエラーが発生しました。
EvalErrorReason == Fixed("evaluation_error")     \* 評価エラー

\* ------------------------------------------------------------------------
\* Strategy 1: brace-delimited substrings, JSON.parse
\* ------------------------------------------------------------------------
\* /\{[^{}]*(?:\{[^{}]*\}[^{}]*)*\}/ from an opening brace: p scans the
\* text after it; inner is TRUE inside a nested pair of braces.  The value
\* is the position of the closing brace, or 0 when there is no match.
RECURSIVE BraceWalk(_, _, _)
BraceWalk(text, p, inner) ==
  IF p > Len(text) THEN 0
  ELSE IF text[p] = RB THEN (IF inner THEN BraceWalk(text, p + 1, FALSE) ELSE p)
  ELSE IF text[p] = LB THEN (IF inner THEN 0 ELSE BraceWalk(text, p + 1, TRUE))
  ELSE BraceWalk(text, p + 1, inner)

\* String.prototype.match with the g flag: the successive non-overlapping
\* matches, left to right, each as the substring it spans.
RECURSIVE JsonMatches(_, _)
JsonMatches(text, i) ==
  IF i > Len(text) THEN <<>>
  ELSE LET e == IF text[i] = LB THEN BraceWalk(text, i + 1, FALSE) ELSE 0
       IN IF e > 0 THEN <<SubSeq(text, i, e)>> \o JsonMatches(text, e + 1)
          ELSE JsonMatches(text, i + 1)

ParseFail == [ok |-> FALSE, next |-> 0, score |-> Undef, reason |-> Undef]

\* JSON.parse of an object: members are "key": value pairs separated by
\* commas; a value is a number, a negative number, a string or an object.
\* A repeated key keeps its last value.
RECURSIVE ParseObject(_, _)
RECURSIVE ParseMembers(_, _, _, _)
ParseValue(m, i) ==
  IF i > Len(m) THEN [ok |-> FALSE, next |-> 0, val |-> Undef]
  ELSE CASE m[i].k = "num" -> [ok |-> TRUE, next |-> i + 1, val |-> NumVal(m[i].v)]
         [] m[i].k = "minus" ->
              IF i + 1 <= Len(m) /\ m[i + 1].k = "num"
              THEN [ok |-> TRUE, next |-> i + 2, val |-> NumVal(0 - m[i + 1].v)]
              ELSE [ok |-> FALSE, next |-> 0, val |-> Undef]
         [] m[i].k = "str" -> [ok |-> TRUE, next |-> i + 1, val |-> StrVal(m[i].v)]
         [] m[i].k = "lb" ->
              LET o == ParseObject(m, i)
              IN [ok |-> o.ok, next |-> o.next, val |-> ObjVal]
         [] OTHER -> [ok |-> FALSE, next |-> 0, val |-> Undef]

ParseMembers(m, i, score, reason) ==
  IF i > Len(m) \/ m[i].k \notin {"qsk", "qrk", "qok"} THEN ParseFail
  ELSE LET v == ParseValue(m, i + 1)
           s2 == IF m[i].k = "qsk" THEN v.val ELSE score
           r2 == IF m[i].k = "qrk" THEN v.val ELSE reason
       IN IF ~v.ok \/ v.next > Len(m) THEN ParseFail
          ELSE IF m[v.next] = RB
               THEN [ok |-> TRUE, next |-> v.next + 1, score |-> s2, reason |-> r2]
          ELSE IF m[v.next] = COMMA THEN ParseMembers(m, v.next + 1, s2, r2)
          ELSE ParseFail

ParseObject(m, i) ==
  IF i + 1 > Len(m) \/ m[i] # LB THEN ParseFail
  ELSE IF m[i + 1] = RB
       THEN [ok |-> TRUE, next |-> i + 2, score |-> Undef, reason |-> Undef]
  ELSE ParseMembers(m, i + 1, Undef, Undef)

JsonParse(m) ==
  LET o == ParseObject(m, 1)
  IN IF o.ok /\ o.next = Len(m) + 1 THEN o ELSE ParseFail

\* The evaluation object of evaluateTask; found = FALSE is null.
NoEval == [found |-> FALSE, score |-> Undef, reason |-> Undef]
Eval(score, reason) == [found |-> TRUE, score |-> score, reason |-> reason]

\* the first match that parses and has a score and a reason
RECURSIVE FirstParsed_RequireKeys(_)
FirstParsed_RequireKeys(ms) ==
  IF ms = <<>> THEN NoEval
  ELSE LET o == JsonParse(Head(ms))
       IN IF o.ok /\ o.score # Undef /\ o.reason # Undef
          THEN Eval(o.score, o.reason)
          ELSE FirstParsed_RequireKeys(Tail(ms))

\* for (const match of jsonMatches): the first match that parses
RECURSIVE FirstParsed(_)
FirstParsed(ms) ==
  IF ms = <<>> THEN NoEval
  ELSE LET o == JsonParse(Head(ms))
       IN IF o.ok THEN Eval(o.score, o.reason) ELSE FirstParsed(Tail(ms))

Strategy1(text) == FirstParsed(JsonMatches(text, 1))

\* ------------------------------------------------------------------------
\* Strategies 2 to 5: regular expressions over the text
\* ------------------------------------------------------------------------
NoMatch == [found |-> FALSE, val |-> Undef]
Match(v) == [found |-> TRUE, val |-> v]

\* positions i of the text with keys[i] followed by a number
KeyNumPositions(text, keys) ==
  {i \in 1..(Len(text) - 1) : text[i].k \in keys /\ text[i + 1].k = "num"}

\* first match of a keyword followed by digits; the capture is parseInt(digits)
FirstKeyNum(text, keys) ==
  LET P == KeyNumPositions(text, keys)
  IN IF P = {} THEN NoMatch ELSE Match(NumVal(text[Least(P) + 1].v))

\* /"score"\s*:\s*(\d+)/
QuotedScoreMatch(text) == FirstKeyNum(text, {"qsk"})

\* the text between the quotes a token starts with
QuotedText(t) == IF t.k = "str" THEN StrVal(t.v) ELSE Val("keyname", 0, <<t>>)
QuotedLen(t) ==
  CASE t.k = "str" -> StrLen(t.v) [] t.k = "qsk" -> 5 [] t.k = "qrk" -> 6 [] OTHER -> 4

\* /"reason"\s*:\s*"([^"]+)"/
QuotedReasonPositions(text) ==
  {i \in 1..(Len(text) - 1) :
     text[i].k = "qrk" /\ StartsWithQuote(text[i + 1]) /\ QuotedLen(text[i + 1]) > 0}
QuotedReasonMatch(text) ==
  LET P == QuotedReasonPositions(text)
  IN IF P = {} THEN NoMatch ELSE Match(QuotedText(text[Least(P) + 1]))

\* strategy 2 accepting a score without a reason
Strategy2_ScoreOnly(text) ==
  LET scoreMatch == QuotedScoreMatch(text)
      reasonMatch == QuotedReasonMatch(text)
  IN IF scoreMatch.found
     THEN Eval(scoreMatch.val, IF reasonMatch.found THEN reasonMatch.val ELSE Undef)
     ELSE NoEval

\* 方法2
Strategy2(text) ==
  LET scoreMatch == QuotedScoreMatch(text)
      reasonMatch == QuotedReasonMatch(text)
  IN IF scoreMatch.found /\ reasonMatch.found
     THEN Eval(scoreMatch.val, reasonMatch.val)
     ELSE NoEval

\* the longest run of tokens without a quote that starts at position i
RECURSIVE RunEnd(_, _)
RunEnd(text, i) ==
  IF i > Len(text) \/ StartsWithQuote(text[i]) THEN i - 1 ELSE RunEnd(text, i + 1)
RECURSIVE TotalLen(_)
TotalLen(s) == IF s = <<>> THEN 0 ELSE CharLen(Head(s)) + TotalLen(Tail(s))
Run(text, i) == SubSeq(text, i, RunEnd(text, i))

\* /(?:reason|理由)[:\s]*["']?([^"'\n]{10,})["']?/i tried at the keyword of
\* token i, a bare reason: or a quoted "reason": ; the capture is trimmed.
\*  - bare keyword, then a quoted string of 10 characters or more: the string;
\*  - bare keyword, then at least 9 characters without a quote: those
\*    characters (with 9 of them the capture starts at the space after the
\*    colon, which trim() removes);
\*  - bare keyword, then 8 characters without a quote: the capture starts
\*    at the colon;
\*  - quoted keyword: its closing quote is taken by ["']? and the capture
\*    starts at the colon, so 8 characters without a quote are enough.
LooseReasonAt(text, i) ==
  LET run == Run(text, i + 1)
      n == TotalLen(run)
  IN IF text[i].k = "rk"
     THEN IF i < Len(text) /\ text[i + 1].k = "str"
          THEN (IF StrLen(text[i + 1].v) >= 10 THEN Match(StrVal(text[i + 1].v)) ELSE NoMatch)
          ELSE IF n >= 9 THEN Match(RunVal(run))
          ELSE IF n = 8 THEN Match(Val("colonrun", 0, run))
          ELSE NoMatch
     ELSE IF text[i].k = "qrk"
     THEN (IF n >= 8 THEN Match(Val("colonrun", 0, run)) ELSE NoMatch)
     ELSE NoMatch

LooseReasonMatch(text) ==
  LET P == {i \in 1..Len(text) : LooseReasonAt(text, i).found}
  IN IF P = {} THEN NoMatch ELSE LooseReasonAt(text, Least(P))

\* 方法3: /(?:score|点数|評価)[:\s]*(\d+)/i and the loose reason
Strategy3(text) ==
  LET scoreMatch == FirstKeyNum(text, {"sk", "ek"})
      reasonMatch == LooseReasonMatch(text)
  IN IF scoreMatch.found
     THEN Eval(scoreMatch.val, IF reasonMatch.found THEN reasonMatch.val ELSE CriterionEvaluated)
     ELSE NoEval

\* /\{"score":\s*,\s*"reason":\s*"([^"]+)"\}/
BrokenJsonPositions(text) ==
  {i \in 1..(Len(text) - 5) :
     /\ text[i] = LB /\ text[i + 1] = QSK /\ text[i + 2] = COMMA /\ text[i + 3] = QRK
     /\ text[i + 4].k = "str" /\ StrLen(text[i + 4].v) > 0
     /\ text[i + 5] = RB}

\* a repair with half of maxScore
Strategy4_Half(text, maxScore) ==
  LET P == BrokenJsonPositions(text)
  IN IF P = {} THEN NoEval
     ELSE Eval(NumVal(maxScore \div 2), StrVal(text[Least(P) + 4].v))

\* 方法4
Strategy4(text, maxScore) ==
  LET P == BrokenJsonPositions(text)
  IN IF P = {} THEN NoEval
     ELSE Eval(NumVal((maxScore * 6) \div 10), StrVal(text[Least(P) + 4].v))

\* a cleaning that removes nothing
StripThink_Nothing(text, i) == SubSeq(text, i, Len(text))

\* evaluationText.replace(/<think>[\s\S]*?<\/think>/g, ''): every <think> is
\* removed with the text up to the nearest </think>; a <think> that is
\* never closed stays.
RECURSIVE StripThink(_, _)
StripThink(text, i) ==
  IF i > Len(text) THEN <<>>
  ELSE LET C == {j \in (i + 1)..Len(text) : text[j] = TCLOSE}
       IN IF text[i] = TOPEN /\ C # {} THEN StripThink(text, Least(C) + 1)
          ELSE <<text[i]>> \o StripThink(text, i + 1)

HasThink(text) == \E i \in 1..Len(text) : text[i] = TOPEN

\* 方法5: /(?:score|点数)[:\s]*(\d+)/i on the cleaned text
Strategy5(text) ==
  IF ~HasThink(text) THEN NoEval
  ELSE LET cleanText == StripThink(text, 1)
           scoreMatch == FirstKeyNum(cleanText, {"sk"})
           reasonMatch == LooseReasonMatch(cleanText)
       IN IF scoreMatch.found
          THEN Eval(scoreMatch.val,
                    IF reasonMatch.found THEN reasonMatch.val ELSE CriterionEvaluated)
          ELSE NoEval

\* the first evaluation found, in the order of the strategies
FirstFound(es) ==
  LET P == {i \in 1..Len(es) : es[i].found}
  IN IF P = {} THEN NoEval ELSE es[Least(P)]

\* a cascade that tries the loose extraction first
Cascade_LooseFirst(text, maxScore) ==
  FirstFound(<< Strategy3(text), Strategy1(text), Strategy2(text),
                Strategy4(text, maxScore), Strategy5(text) >>)

\* a cascade that passes over an evaluation whose score is not a number
\* from 0 up
Cascade_SkipBadScore(text, maxScore) ==
  LET es == << Strategy1(text), Strategy2(text), Strategy3(text),
               Strategy4(text, maxScore), Strategy5(text) >>
      P == {i \in 1..5 : es[i].found /\ es[i].score.t = "num" /\ es[i].score.n >= 0}
  IN IF P = {} THEN NoEval ELSE es[Least(P)]

\* The cascade: each strategy runs only if (!evaluation), so that the
\* evaluation is that of the first strategy, in the order 1 to 5, that
\* produces one.
Cascade(text, maxScore) ==
  FirstFound(<< Strategy1(text), Strategy2(text), Strategy3(text),
                Strategy4(text, maxScore), Strategy5(text) >>)

\* ------------------------------------------------------------------------
\* Tasks and results
\* ------------------------------------------------------------------------
NumTasks == 4

Task(id, criterion, maxScore) ==
  [taskId |-> id, criterion |-> criterion, maxScore |-> maxScore]

\* createEvaluationTasks; the timestamp suffix of the ids, shared by the
\* four tasks of a call, is left out.
createEvaluationTasks ==
  << Task("theme-match", "theme_match", 20),
     Task("originality", "originality", 30),
     Task("tech-compatibility", "tech_compatibility", 20),
     Task("feasibility", "feasibility", 30) >>

Absent == "<absent>"

\* Outcomes of a generation call: a text, or a thrown value
GenText(text) == [threw |-> FALSE, text |-> text, err |-> Absent]
GenThrow(err) == [threw |-> TRUE, text |-> <<>>, err |-> err]

\* Thrown values: Error objects, by message, and a value that is not an Error
ThrownValues == {"Error:timeout", "Error:", "not an Error"}
\* the thrown values of the calls of a whole evaluation
CallErrors == {"Error:timeout", "not an Error"}
\* error instanceof Error ? error.message : 'Unknown error'
ErrorMessage(e) ==
  CASE e = "Error:timeout" -> "timeout" [] e = "Error:" -> "" [] OTHER -> "Unknown error"

\* parseInt of the strings of the model: only "12 points" starts with digits
NaN == -1000000
StrParseInt(i) == IF i = 3 THEN 12 ELSE NaN

\* parseInt of a number: parseInt(String(n)), the digits before the first
\* character that is not a digit; String(10^21) is "1e+21"
ParseIntOfNumber(n) == IF n >= Sextillion THEN 1 ELSE n

\* parseInt(evaluation.score) || 0
ParseIntOr0(v) ==
  CASE v.t = "num" -> ParseIntOfNumber(v.n)
    [] v.t = "str" -> (IF StrParseInt(v.s[1].v) = NaN THEN 0 ELSE StrParseInt(v.s[1].v))
    [] OTHER -> 0

\* ClampScore without the upper bound
ClampScore_NoMin(v, maxScore) == Max(0, ParseIntOr0(v))

\* Math.max(0, Math.min(task.maxScore, parseInt(evaluation.score) || 0))
ClampScore(v, maxScore) == Max(0, Min(maxScore, ParseIntOr0(v)))

\* JavaScript truthiness of a value
Truthy(v) ==
  CASE v.t \in {"undef", "empty"} -> FALSE
    [] v.t = "num" -> v.n # 0
    [] v.t = "str" -> StrLen(v.s[1].v) > 0
    [] OTHER -> TRUE

Result(task, score, reason, success, error) ==
  [taskId |-> task.taskId, criterion |-> task.criterion, score |-> score,
   maxScore |-> task.maxScore, reason |-> reason, success |-> success, error |-> error]

\* a response that cannot be parsed reported as a failure
EvaluationResult_ParseFailure(task, evaluation) ==
  IF evaluation.found
  THEN Result(task, ClampScore(evaluation.score, task.maxScore),
              IF Truthy(evaluation.reason) THEN evaluation.reason ELSE NoReasonGiven,
              TRUE, Absent)
  ELSE Result(task, 0, ParseErrorReason, FALSE, "parse error")

\* the score 0 for a response that cannot be parsed
EvaluationResult_FallbackZero(task, evaluation) ==
  IF evaluation.found
  THEN Result(task, ClampScore(evaluation.score, task.maxScore),
              IF Truthy(evaluation.reason) THEN evaluation.reason ELSE NoReasonGiven,
              TRUE, Absent)
  ELSE Result(task, 0, ParseErrorReason, TRUE, Absent)

\* if (evaluation) ... else ...: the result of a generation that returned
EvaluationResult(task, evaluation) ==
  IF evaluation.found
  THEN Result(task, ClampScore(evaluation.score, task.maxScore),
              IF Truthy(evaluation.reason) THEN evaluation.reason ELSE NoReasonGiven,
              TRUE, Absent)
  ELSE Result(task, task.maxScore \div 2, ParseErrorReason, TRUE, Absent)

\* EvaluationWorker.evaluateTask, from the outcome of its generation call
evaluateTask(task, gen) ==
  IF gen.threw
  THEN Result(task, 0, EmptyReason, FALSE, ErrorMessage(gen.err))
  ELSE EvaluationResult(task, Cascade(gen.text, task.maxScore))

\* ------------------------------------------------------------------------
\* The report of integrateEvaluations
\* ------------------------------------------------------------------------
\* A report, and the text of the summary model, is a sequence of lines:
\*   SCORE: <n>                                  (label "SCORE")
\*   <label of the criterion>: <n>/<max>点 理由: <reason>
\* n = NoNumber stands for something that is not a number.
NoNumber == -1
Line(label, n, max, reason) == [label |-> label, n |-> n, max |-> max, reason |-> reason]
ScoreLine(n) == Line("SCORE", n, 0, Undef)

Criteria == <<"theme_match", "originality", "tech_compatibility", "feasibility">>
\* the /20点 and /30点 of the report format
LabelMax(c) == IF c \in {"theme_match", "tech_compatibility"} THEN 20 ELSE 30

\* results.find(r => r.criterion === c)
FindResult(results, c) ==
  LET P == {i \in 1..Len(results) : results[i].criterion = c}
  IN IF P = {} THEN [found |-> FALSE, score |-> 0, reason |-> Undef]
     ELSE [found |-> TRUE, score |-> results[Least(P)].score,
           reason |-> results[Least(P)].reason]

\* a sum that leaves out the last result
RECURSIVE SumScores_DropLast(_)
SumScores_DropLast(results) ==
  IF Len(results) <= 1 THEN 0
  ELSE Head(results).score + SumScores_DropLast(Tail(results))

\* results.reduce((sum, result) => sum + result.score, 0)
RECURSIVE SumScores(_)
SumScores(results) ==
  IF results = <<>> THEN 0 ELSE Head(results).score + SumScores(Tail(results))

\* a local score that is always 0
LocalScore_Zero(results, c) == 0

\* x?.score || 0  and  x?.reason || '評価エラー'
LocalScore(results, c) == FindResult(results, c).score
LocalReason(results, c) ==
  LET r == FindResult(results, c)
  IN IF r.found /\ Truthy(r.reason) THEN r.reason ELSE EvalErrorReason

\* formatEvaluationResult
formatEvaluationResult(total, scores, reasons) ==
  <<ScoreLine(total)>> \o
  [i \in 1..4 |-> Line(Criteria[i], scores[i], LabelMax(Criteria[i]), reasons[i])]

\* /SCORE:\s*(\d+)/
SummaryScoreMatch(summaryText) ==
  LET P == {i \in 1..Len(summaryText) :
              summaryText[i].label = "SCORE" /\ summaryText[i].n # NoNumber}
  IN IF P = {} THEN [found |-> FALSE, n |-> 0]
     ELSE [found |-> TRUE, n |-> summaryText[Least(P)].n]

\* a pattern that takes a line of the criterion whatever its /<max>点
SummaryFieldPositions_AnyMax(summaryText, c) ==
  {i \in 1..Len(summaryText) :
     summaryText[i].label = c /\ summaryText[i].n # NoNumber}

\* /<label>:\s*(\d+)\/<max>点\s*理由:\s*(.+?)(?=\n|<next label>|$)/: the
\* first line of the criterion with a number and the /<max>点 of the
\* pattern.  A line is written with a space after 理由: ; with nothing
\* behind it, \s* runs over the end of the line and the reason is taken
\* from the line below, and on the last line the reason is that space,
\* which trim() empties.
SummaryFieldPositions(summaryText, c) ==
  {i \in 1..Len(summaryText) :
     /\ summaryText[i].label = c /\ summaryText[i].n # NoNumber
     /\ summaryText[i].max = LabelMax(c)}
SummaryFieldMatch(summaryText, c) ==
  LET P == SummaryFieldPositions(summaryText, c)
      i == Least(P)
      l == summaryText[i]
  IN IF P = {} THEN [found |-> FALSE, n |-> 0, reason |-> Undef]
     ELSE [found |-> TRUE, n |-> l.n,
           reason |-> IF Truthy(l.reason) THEN l.reason
                      ELSE IF i < Len(summaryText) THEN Fixed("line_below")
                      ELSE EmptyReason]

\* the try block of integrateEvaluations, after the summary text arrived
IntegrateSummary(results, summaryText) ==
  LET totalScore == SumScores(results)
      scoreMatch == SummaryScoreMatch(summaryText)
      field(c) == SummaryFieldMatch(summaryText, c)
  IN formatEvaluationResult(
       IF scoreMatch.found THEN scoreMatch.n ELSE totalScore,
       [i \in 1..4 |-> IF field(Criteria[i]).found THEN field(Criteria[i]).n
                       ELSE LocalScore(results, Criteria[i])],
       [i \in 1..4 |-> IF field(Criteria[i]).found THEN field(Criteria[i]).reason
                       ELSE LocalReason(results, Criteria[i])])

\* a catch block that reports zeros, as the catch of evaluateHackathonIdea
IntegrateFallback_Zeros(results) ==
  formatEvaluationResult(0, [i \in 1..4 |-> 0], [i \in 1..4 |-> EvalErrorReason])

\* the catch block of integrateEvaluations
IntegrateFallback(results) ==
  formatEvaluationResult(
    SumScores(results),
    [i \in 1..4 |-> LocalScore(results, Criteria[i])],
    [i \in 1..4 |-> LocalReason(results, Criteria[i])])

\* integrateEvaluations, from the outcome of the summarization call
integrateEvaluations(results, gen) ==
  IF gen.threw THEN IntegrateFallback(results)
  ELSE IntegrateSummary(results, gen.text)

\* ------------------------------------------------------------------------
\* Inputs
\* ------------------------------------------------------------------------
\* Response texts are made of at most MaxSegs of these pieces.
MaxSegs == 3

\* {"score": n, "reason": "clear rationale"}
Obj(n) == <<LB, QSK, Num(n), COMMA, QRK, Str(1), RB>>

Segments ==
  { Obj(4), Obj(45),
    <<LB, QOK, Str(2), RB>>,                \* {"note": "x"}
    <<LB, QSK, MINUS, Num(5), RB>>,         \* {"score": -5}
    <<LB, QSK, Str(2), RB>>,                \* {"score": "x"}
    <<LB, QSK, Str(3), COMMA, QRK, Str(0), RB>>, \* {"score": "12 points", "reason": ""}
    <<LB, QSK, COMMA, QRK, Str(2), RB>>,    \* {"score": , "reason": "x"}
    <<QSK, Num(7)>>,                        \* "score": 7
    <<QRK, Str(1)>>,                        \* "reason": "clear rationale"
    <<SK, Num(9)>>,                         \* score: 9
    <<EK, Num(3)>>,                         \* 評価: 3
    <<SK>>, <<Num(25)>>,                    \* score:   and   25
    <<RK, Txt(1)>>,                         \* reason: clear rationale
    <<TOPEN, Txt(1), TCLOSE>>,              \* <think>clear rationale</think>
    <<TOPEN, SK, Num(3), TCLOSE>>,          \* <think>score: 3</think>
    <<TOPEN>>, <<LB>>, <<RB>> }

SegSeqs == UNION {[1..n -> Segments] : n \in 0..MaxSegs}

\* Tasks of any maxScore from 1 to MaxMaxScore, and scores that go
\* MaxBeyond below 0 and above it
MaxMaxScore == 30
MaxBeyond == 2

\* {"score": s, "reason": "<string r>"}
ObjOf(sc, r) ==
  <<LB, QSK>> \o (IF sc < 0 THEN <<MINUS, Num(0 - sc)>> ELSE <<Num(sc)>>)
  \o <<COMMA, QRK, Str(r), RB>>
\* {"score": , "reason": "<string r>"}
BrokenOf(r) == <<LB, QSK, COMMA, QRK, Str(r), RB>>

ShapeScores == ((0 - MaxBeyond)..(MaxMaxScore + MaxBeyond)) \cup {Sextillion}
NonEmptyStrings == {1, 2, 3}

\* Response texts of the tasks of a whole evaluation
ResponseTexts == { Obj(17), Obj(45), <<LB, QSK, MINUS, Num(5), RB>>, <<Txt(1)>> }

\* Texts of the summary model: lines of the format, with numbers of the
\* model's own, all of them or some, and texts that are off format.
SummaryLine(i) ==
  IF i = 0 THEN ScoreLine(999)
  ELSE Line(Criteria[i], 7 * i, LabelMax(Criteria[i]), StrVal(1))
RECURSIVE LinesOf(_, _)
LinesOf(S, i) ==
  IF i > 4 THEN <<>>
  ELSE (IF i \in S THEN <<SummaryLine(i)>> ELSE <<>>) \o LinesOf(S, i + 1)
SummaryTexts ==
  {LinesOf(S, 0) : S \in {{}, 0..4, {0}, 1..4, {1}, {2, 3}}} \cup
  { <<ScoreLine(NoNumber), Line("theme_match", 5, 30, StrVal(1))>>,
    <<Line("originality", 8, 30, EmptyReason), Line("feasibility", 31, 30, EmptyReason)>> }

\* ------------------------------------------------------------------------
\* State
\* ------------------------------------------------------------------------
VARIABLES
  pc,        \* position of evaluateHackathonIdea
  tasks,     \* the tasks of the call, once planned
  branch,    \* per task: "idle", "pending" (generation in flight), "done"
  gens,      \* per task: the outcome of its generation call, once done
  results,   \* per task: the slot of Promise.all for its result
  completed, \* the tasks in the order their branches completed
  calls,     \* per task: number of generation calls made for it
  sumCalls,  \* number of summarization calls made
  sumGen,    \* the outcome of the summarization call, once it returned
  ret,       \* what evaluateHackathonIdea gave its caller
  call       \* a stand-alone call of evaluateTask

vars == <<pc, tasks, branch, gens, results, completed, calls, sumCalls, sumGen, ret, call>>

TaskIds == 1..NumTasks

NoResult ==
  [taskId |-> "", criterion |-> "", score |-> 0, maxScore |-> 0,
   reason |-> Undef, success |-> FALSE, error |-> Absent]
NoGen == GenText(<<>>)
NoRet == [kind |-> "none", tasks |-> <<>>, results |-> <<>>, finalScore |-> <<>>]
Thrown == [kind |-> "thrown", tasks |-> <<>>, results |-> <<>>, finalScore |-> <<>>]
Returned(ts, rs, fs) == [kind |-> "returned", tasks |-> ts, results |-> rs, finalScore |-> fs]
NoCall == [task |-> 0, gen |-> NoGen, result |-> NoResult, returned |-> FALSE]

\* the catch block of evaluateHackathonIdea
fallbackTasks ==
  << Task("fallback-theme", "theme_match", 20),
     Task("fallback-originality", "originality", 30),
     Task("fallback-tech", "tech_compatibility", 20),
     Task("fallback-feasibility", "feasibility", 30) >>
fallbackResults(err) ==
  [i \in 1..4 |-> Result(fallbackTasks[i], 0, BatchErrorReason, FALSE, ErrorMessage(err))]
fallbackScore ==
  <<ScoreLine(0)>> \o
  [i \in 1..4 |-> Line(Criteria[i], 0, LabelMax(Criteria[i]), Fixed("batch_error_line"))]
\* a fallback that keeps the planned tasks
FallbackBatch_Mixed(err) == Returned(createEvaluationTasks, fallbackResults(err), fallbackScore)

FallbackBatch(err) == Returned(fallbackTasks, fallbackResults(err), fallbackScore)

\* Outcomes of the generation calls
TaskOutcomes == {GenText(t) : t \in ResponseTexts} \cup {GenThrow(e) : e \in CallErrors}
SummaryOutcomes == {GenText(t) : t \in SummaryTexts} \cup {GenThrow(e) : e \in CallErrors}
ParseOutcomes == {GenText(Concat(ss)) : ss \in SegSeqs} \cup {GenThrow(e) : e \in ThrownValues}

Idle ==
  /\ tasks = <<>>
  /\ branch = [i \in TaskIds |-> "idle"]
  /\ gens = [i \in TaskIds |-> NoGen]
  /\ results = [i \in TaskIds |-> NoResult]
  /\ completed = <<>>
  /\ calls = [i \in TaskIds |-> 0]
  /\ sumCalls = 0
  /\ sumGen = NoGen
  /\ ret = NoRet

Init ==
  /\ pc = "entry"
  /\ Idle
  /\ call = NoCall

\* ------------------------------------------------------------------------
\* evaluateHackathonIdea
\* ------------------------------------------------------------------------
\* line 476, before the try: createWorkersAI returns
CreateWorkersAI ==
  /\ pc = "entry"
  /\ pc' = "try"
  /\ UNCHANGED <<tasks, branch, gens, results, completed, calls, sumCalls, sumGen, ret, call>>

\* line 476, before the try: createWorkersAI throws, and so does the call
CreateWorkersAIThrows ==
  /\ pc = "entry"
  /\ pc' = "done"
  /\ ret' = Thrown
  /\ UNCHANGED <<tasks, branch, gens, results, completed, calls, sumCalls, sumGen, call>>

\* an exception in the try block before the tasks are dispatched
PlanningThrows ==
  /\ pc = "try"
  /\ \E e \in CallErrors : ret' = FallbackBatch(e)
  /\ pc' = "done"
  /\ UNCHANGED <<tasks, branch, gens, results, completed, calls, sumCalls, sumGen, call>>

\* tasks.map(async ...): every branch runs up to its generation call
Dispatch ==
  /\ pc = "try"
  /\ tasks' = createEvaluationTasks
  /\ branch' = [i \in TaskIds |-> "pending"]
  /\ calls' = [i \in TaskIds |-> calls[i] + 1]
  /\ pc' = "await_all"
  /\ UNCHANGED <<gens, results, completed, sumCalls, sumGen, ret, call>>

\* results collected in the order of completion
StoreResult_Push(rs, done, i, r) == [rs EXCEPT ![Len(done) + 1] = r]

\* the result of branch i in the array Promise.all resolves to
StoreResult(rs, done, i, r) == [rs EXCEPT ![i] = r]

\* a branch that calls the generation again when it threw
GenerationReturns_Retry(i) ==
  /\ pc = "await_all"
  /\ branch[i] = "pending"
  /\ \E g \in TaskOutcomes :
       IF g.threw /\ calls[i] < 2
       THEN /\ calls' = [calls EXCEPT ![i] = @ + 1]
            /\ UNCHANGED <<gens, results, branch, completed>>
       ELSE /\ gens' = [gens EXCEPT ![i] = g]
            /\ results' = StoreResult(results, completed, i, evaluateTask(tasks[i], g))
            /\ branch' = [branch EXCEPT ![i] = "done"]
            /\ completed' = Append(completed, i)
            /\ UNCHANGED calls
  /\ UNCHANGED <<pc, tasks, sumCalls, sumGen, ret, call>>

\* the generation call of branch i returns or throws; evaluateTask finishes
GenerationReturns(i) ==
  /\ pc = "await_all"
  /\ branch[i] = "pending"
  /\ \E g \in TaskOutcomes :
       /\ gens' = [gens EXCEPT ![i] = g]
       /\ results' = StoreResult(results, completed, i, evaluateTask(tasks[i], g))
  /\ branch' = [branch EXCEPT ![i] = "done"]
  /\ completed' = Append(completed, i)
  /\ UNCHANGED <<pc, tasks, calls, sumCalls, sumGen, ret, call>>

\* a wait that ends with the first branch
AllDone_Some == \E i \in TaskIds : branch[i] = "done"

\* await Promise.all(...): every branch has completed
AllDone == \A i \in TaskIds : branch[i] = "done"

\* Promise.all resolves; integrateEvaluations runs up to its generation call
StartIntegration ==
  /\ pc = "await_all"
  /\ AllDone
  /\ sumCalls' = sumCalls + 1
  /\ pc' = "integrating"
  /\ UNCHANGED <<tasks, branch, gens, results, completed, calls, sumGen, ret, call>>

\* an integrateEvaluations that rejects when its generation call throws
SummaryReturns_Rejecting ==
  /\ pc = "integrating"
  /\ \E g \in SummaryOutcomes :
       /\ sumGen' = g
       /\ ret' = IF g.threw THEN FallbackBatch(g.err)
                 ELSE Returned(tasks, results, integrateEvaluations(results, g))
  /\ pc' = "done"
  /\ UNCHANGED <<tasks, branch, gens, results, completed, calls, sumCalls, call>>

\* the summarization call returns or throws; the report is returned
SummaryReturns ==
  /\ pc = "integrating"
  /\ \E g \in SummaryOutcomes :
       /\ sumGen' = g
       /\ ret' = Returned(tasks, results, integrateEvaluations(results, g))
  /\ pc' = "done"
  /\ UNCHANGED <<tasks, branch, gens, results, completed, calls, sumCalls, call>>

Next ==
  \/ CreateWorkersAI
  \/ CreateWorkersAIThrows
  \/ PlanningThrows
  \/ Dispatch
  \/ \E i \in TaskIds : GenerationReturns(i)
  \/ StartIntegration
  \/ SummaryReturns

Spec == Init /\ [][Next]_vars

\* ------------------------------------------------------------------------
\* evaluateTask on its own, over all the response texts
\* ------------------------------------------------------------------------
InitParse ==
  /\ pc = "off"
  /\ Idle
  /\ \E t \in TaskIds, g \in ParseOutcomes :
       call = [task |-> t, gen |-> g, result |-> NoResult, returned |-> FALSE]

EvaluateTaskCall ==
  /\ pc = "off"
  /\ ~call.returned
  /\ call' = [call EXCEPT !.result = evaluateTask(createEvaluationTasks[call.task], call.gen),
                          !.returned = TRUE]
  /\ UNCHANGED <<pc, tasks, branch, gens, results, completed, calls, sumCalls, sumGen, ret>>

NextParse == EvaluateTaskCall

SpecParse == InitParse /\ [][NextParse]_vars

\* ------------------------------------------------------------------------
\* evaluateTask on the two shapes of the prompt, for every maxScore
\* ------------------------------------------------------------------------
ShapeCall(shape, m, sc, r, text) ==
  [task |-> 0, gen |-> GenText(text), result |-> NoResult, returned |-> FALSE,
   shape |-> shape, maxScore |-> m, s |-> sc, r |-> r]

InitShape ==
  /\ pc = "shape"
  /\ Idle
  /\ \E m \in 1..MaxMaxScore, r \in NonEmptyStrings :
       \/ call = ShapeCall("broken", m, 0, r, BrokenOf(r))
       \/ \E sc \in ShapeScores : call = ShapeCall("object", m, sc, r, ObjOf(sc, r))

EvaluateShapeCall ==
  /\ pc = "shape"
  /\ ~call.returned
  /\ call' = [call EXCEPT
       !.result = evaluateTask(Task("task", "theme_match", call.maxScore), call.gen),
       !.returned = TRUE]
  /\ UNCHANGED <<pc, tasks, branch, gens, results, completed, calls, sumCalls, sumGen, ret>>

NextShape == EvaluateShapeCall

SpecShape == InitShape /\ [][NextShape]_vars

\* ------------------------------------------------------------------------
\* integrateEvaluations on its own, over all the subsets of summary lines
\* ------------------------------------------------------------------------
IntegrateOutcomes ==
  {GenText(Obj(17)), GenText(<<Txt(1)>>), GenThrow("Error:timeout")}
AllSummaryOutcomes ==
  {GenText(LinesOf(S, 0)) : S \in SUBSET (0..4)} \cup SummaryOutcomes

\* evaluateHackathonIdea at line 502, with the outcome of the
\* summarization call of line 342
InitIntegrate ==
  /\ pc = "integrate"
  /\ tasks = createEvaluationTasks
  /\ branch = [i \in TaskIds |-> "done"]
  /\ gens \in [TaskIds -> IntegrateOutcomes]
  /\ results = [i \in TaskIds |-> evaluateTask(createEvaluationTasks[i], gens[i])]
  /\ completed = <<1, 2, 3, 4>>
  /\ calls = [i \in TaskIds |-> 1]
  /\ sumCalls = 1
  /\ sumGen \in AllSummaryOutcomes
  /\ ret = NoRet
  /\ call = NoCall

IntegrateCall ==
  /\ pc = "integrate"
  /\ ret = NoRet
  /\ ret' = Returned(tasks, results, integrateEvaluations(results, sumGen))
  /\ UNCHANGED <<pc, tasks, branch, gens, results, completed, calls, sumCalls, sumGen, call>>

NextIntegrate == IntegrateCall

SpecIntegrate == InitIntegrate /\ [][NextIntegrate]_vars

\* ------------------------------------------------------------------------
\* Properties
\* ------------------------------------------------------------------------
ReturnedNormally == ret.kind = "returned" /\ sumCalls = 1
ReturnedFallback == ret.kind = "returned" /\ sumCalls = 0
CallText == call.gen.text
CallMax == createEvaluationTasks[call.task].maxScore
ParsedCall == call.returned /\ ~call.gen.threw

\* C1: every result returned by evaluateHackathonIdea has a score from 0 to
\* the maxScore of its task, on the clamped path, the mid-point path, the
\* path of a failed generation and in the fallback batch.
C1_ScoreInRange ==
  ret.kind = "returned" =>
    /\ Len(ret.results) = Len(ret.tasks)
    /\ \A i \in 1..Len(ret.results) :
         /\ 0 <= ret.results[i].score
         /\ ret.results[i].score <= ret.results[i].maxScore
         /\ ret.results[i].maxScore = ret.tasks[i].maxScore

\* a call returned a score that was clamped to maxScore, one that was
\* clamped to 0, a mid-point score and the score of a failed generation
C1_Witness ==
  /\ ReturnedNormally
  /\ gens[1] = GenText(Obj(45)) /\ ret.results[1].score = 20
  /\ gens[2] = GenText(<<LB, QSK, MINUS, Num(5), RB>>) /\ ret.results[2].score = 0
  /\ gens[3] = GenText(<<Txt(1)>>) /\ ret.results[3].score = 10
  /\ gens[4].threw /\ ret.results[4].score = 0

\* C2 as stated: the total of the report is the sum of the scores of the
\* results, on every path of integrateEvaluations.
C2_TotalIsSum ==
  ReturnedNormally => ret.finalScore[1].n = SumScores(ret.results)

\* C2, amended: the total of the report is the number of the first
\* SCORE: <digits> of the summary text when there is one, and the sum of
\* the scores of all results, whatever their success flags, when there is
\* none or the summarization threw.
C2_TotalIsSumUnlessSummaryScore ==
  ReturnedNormally =>
    /\ ret.finalScore[1].label = "SCORE"
    /\ IF ~sumGen.threw /\ SummaryScoreMatch(sumGen.text).found
       THEN ret.finalScore[1].n = SummaryScoreMatch(sumGen.text).n
       ELSE ret.finalScore[1].n =
              ret.results[1].score + ret.results[2].score
              + ret.results[3].score + ret.results[4].score

\* a report whose total is the sum, of results of which one failed, after
\* a summary text without a SCORE line
C2_Witness ==
  /\ ReturnedNormally
  /\ ~sumGen.threw /\ sumGen.text # <<>> /\ ~SummaryScoreMatch(sumGen.text).found
  /\ gens[1] = GenText(Obj(17)) /\ gens[2] = GenText(Obj(45))
  /\ gens[3].threw /\ ~ret.results[3].success /\ gens[4] = GenText(<<Txt(1)>>)
  /\ ret.finalScore[1].n = 17 + 30 + 0 + 15

\* C3: the call returns one result per task, in the order of the tasks,
\* whatever the order of completion; when the generation of exactly one
\* task threw, its result is a failure with score 0 and every other result
\* is what evaluateTask makes of that task's own response.
C3_OrderedAndIsolated ==
  ret.kind = "returned" =>
    /\ Len(ret.results) = NumTasks
    /\ \A i \in TaskIds : ret.results[i].taskId = ret.tasks[i].taskId
    /\ ReturnedNormally =>
         \A j \in TaskIds :
           (gens[j].threw /\ \A i \in TaskIds \ {j} : ~gens[i].threw) =>
             /\ ~ret.results[j].success /\ ret.results[j].score = 0
             /\ \A i \in TaskIds \ {j} :
                  ret.results[i] = evaluateTask(createEvaluationTasks[i], GenText(gens[i].text))

\* exactly one generation threw and the branches completed in reverse order
C3_Witness ==
  /\ ReturnedNormally
  /\ completed = <<4, 3, 2, 1>>
  /\ gens[2].threw /\ \A i \in TaskIds \ {2} : ~gens[i].threw
  /\ ret.results[1].score = 17 /\ ret.results[4].score = 30

AnyStrategyMatches(text, maxScore) ==
  \/ Strategy1(text).found \/ Strategy2(text).found \/ Strategy3(text).found
  \/ Strategy4(text, maxScore).found \/ Strategy5(text).found

\* C5: when the generation succeeds and none of the five strategies
\* matches the text, the result is a success with half of maxScore,
\* rounded down, the fixed reason and no error.
C5_MidPointFallback ==
  (ParsedCall /\ ~AnyStrategyMatches(CallText, CallMax)) =>
    /\ call.result.success
    /\ call.result.score = CallMax \div 2
    /\ call.result.reason = ParseErrorReason
    /\ call.result.error = Absent

\* no strategy matches a text with a score field and no reason
C5_Witness ==
  /\ ParsedCall /\ CallText = <<QSK, Num(7)>> /\ CallMax = 30
  /\ ~AnyStrategyMatches(CallText, CallMax)
  /\ call.result.score = 15 /\ call.result.success

\* the report has the SCORE line and a line for each criterion, in order
WellFormedReport(fs) ==
  /\ Len(fs) = 5
  /\ fs[1].label = "SCORE" /\ fs[1].n # NoNumber
  /\ \A i \in 1..4 : fs[i + 1].label = Criteria[i] /\ fs[i + 1].n # NoNumber

\* C6: evaluateHackathonIdea never throws to its caller; whatever fails, it
\* returns tasks, results and a report with the SCORE line and one line
\* per criterion.
C6_NeverThrows ==
  pc = "done" =>
    /\ ret.kind = "returned"
    /\ Len(ret.tasks) = NumTasks /\ Len(ret.results) = NumTasks
    /\ WellFormedReport(ret.finalScore)

\* the score evaluateTask makes of an evaluation object
ScoreOf(e) == ClampScore(e.score, CallMax)

\* C7: the result comes from the first strategy, in the order 1 to 5, that
\* produced an evaluation; a text with a JSON object of score a and a
\* looser pattern of score b gives the clamped a.
C7_StrategyOrder ==
  ParsedCall =>
    LET e1 == Strategy1(CallText)
        e2 == Strategy2(CallText)
        e3 == Strategy3(CallText)
        e4 == Strategy4(CallText, CallMax)
        e5 == Strategy5(CallText)
    IN /\ e1.found => call.result.score = ScoreOf(e1)
       /\ (~e1.found /\ e2.found) => call.result.score = ScoreOf(e2)
       /\ (~e1.found /\ ~e2.found /\ e3.found) => call.result.score = ScoreOf(e3)
       /\ (~e1.found /\ ~e2.found /\ ~e3.found /\ e4.found) =>
            call.result.score = ScoreOf(e4)
       /\ (~e1.found /\ ~e2.found /\ ~e3.found /\ ~e4.found /\ e5.found) =>
            call.result.score = ScoreOf(e5)

\* score: 9 {"score": 4, "reason": "clear rationale"} gives 4
C7_Witness ==
  /\ ParsedCall /\ CallText = <<SK, Num(9)>> \o Obj(4)
  /\ Strategy1(CallText).found /\ Strategy3(CallText).found
  /\ ScoreOf(Strategy3(CallText)) = 9
  /\ call.result.score = 4

\* the brace-delimited substrings of the text that JSON.parse accepts
ParsedMatches(text) ==
  LET ms == JsonMatches(text, 1)
  IN [i \in {j \in 1..Len(ms) : JsonParse(ms[j]).ok} |-> JsonParse(ms[i])]

HasBothKeys(o) == o.score # Undef /\ o.reason # Undef

\* C8 as stated: strategy 1 accepts a substring only if it has a score key
\* and a reason key; without one of them the substring is rejected and the
\* next candidate, or the next strategy, decides.
C8_RequiresBothKeys ==
  ParsedCall =>
    LET pm == ParsedMatches(CallText)
        K == {i \in DOMAIN pm : HasBothKeys(pm[i])}
    IN /\ Strategy1(CallText).found => HasBothKeys(Strategy1(CallText))
       /\ K # {} => call.result.score = ScoreOf(pm[Least(K)])

\* C8, amended: strategy 1 accepts the first brace-delimited substring that
\* JSON.parse accepts, with or without a score key and a reason key: a
\* missing score gives the score 0 and a missing reason the placeholder
\* reason; only a substring that does not parse is passed over.
C8_FirstParsedObjectWins ==
  ParsedCall =>
    LET pm == ParsedMatches(CallText)
        o == pm[Least(DOMAIN pm)]
    IN IF DOMAIN pm = {} THEN ~Strategy1(CallText).found
       ELSE /\ call.result.success
            /\ call.result.score = ScoreOf(o)
            /\ o.score = Undef => call.result.score = 0
            /\ o.reason = Undef => call.result.reason = NoReasonGiven

\* {"note": "x"} {"score": 4, "reason": "clear rationale"} gives 0
C8_Witness ==
  /\ ParsedCall /\ CallText = <<LB, QOK, Str(2), RB>> \o Obj(4)
  /\ call.result.score = 0 /\ call.result.reason = NoReasonGiven

\* the result of the strategies after the second
AfterStrategy2(text, maxScore) ==
  LET e3 == Strategy3(text)
      e4 == IF e3.found THEN e3 ELSE Strategy4(text, maxScore)
  IN IF e4.found THEN e4 ELSE Strategy5(text)

\* C9 as stated: when strategy 1 found nothing, strategy 2 accepts as soon
\* as the "score": <digits> pattern matches, and yields that score.
C9_ScoreAloneAccepted ==
  (ParsedCall /\ ~Strategy1(CallText).found /\ QuotedScoreMatch(CallText).found) =>
    call.result.score = ClampScore(QuotedScoreMatch(CallText).val, CallMax)

\* C9, amended: when strategy 1 found nothing, strategy 2 accepts only when
\* both the "score": <digits> pattern and the "reason": "<text>" pattern
\* match, and then yields that score and that reason; with a score match
\* and no reason match it yields nothing, and the later strategies or the
\* mid-point fallback decide.
C9_ScoreAndReasonNeeded ==
  (ParsedCall /\ ~Strategy1(CallText).found /\ QuotedScoreMatch(CallText).found) =>
    IF QuotedReasonMatch(CallText).found
    THEN /\ call.result.score = ClampScore(QuotedScoreMatch(CallText).val, CallMax)
         /\ call.result.reason = QuotedReasonMatch(CallText).val
    ELSE LET e == AfterStrategy2(CallText, CallMax)
         IN call.result.score = IF e.found THEN ScoreOf(e) ELSE CallMax \div 2

\* "score": 7 without a reason gives the mid-point, not 7
C9_Witness ==
  /\ ParsedCall /\ CallText = <<QSK, Num(7)>> /\ CallMax = 20
  /\ QuotedScoreMatch(CallText).found /\ ~QuotedReasonMatch(CallText).found
  /\ call.result.score = 10

\* the text has a <think> with a </think> behind it
HasThinkBlock(text) ==
  \E i \in 1..Len(text) : \E j \in (i + 1)..Len(text) :
    text[i] = TOPEN /\ text[j] = TCLOSE

\* the text without its thinking blocks
Cleaned(text) ==
  LET B == {p \in 1..Len(text) :
              \E i \in 1..p : \E j \in p..Len(text) :
                /\ text[i] = TOPEN /\ text[j] = TCLOSE
                /\ \A k \in i..(j - 1) : text[k] # TCLOSE}
      keep == {p \in 1..Len(text) : p \notin B}
      F[n \in 0..Len(text)] ==
        IF n = 0 THEN <<>> ELSE IF n \in keep THEN Append(F[n - 1], text[n]) ELSE F[n - 1]
  IN F[Len(text)]

\* the first score: <digits> of a text
LooseScoreOf(text) ==
  LET P == {i \in 1..(Len(text) - 1) : text[i] = SK /\ text[i + 1].k = "num"}
  IN IF P = {} THEN [found |-> FALSE, v |-> 0]
     ELSE [found |-> TRUE, v |-> text[Least(P) + 1].v]

C10_Case ==
  /\ ParsedCall /\ HasThinkBlock(CallText)
  /\ ~Strategy1(CallText).found /\ ~Strategy2(CallText).found
  /\ LooseScoreOf(Cleaned(CallText)).found

C11_RepairSixtyPercent ==
  (call.returned /\ call.shape = "broken"
   /\ ~Strategy1(CallText).found /\ ~Strategy2(CallText).found
   /\ ~Strategy3(CallText).found) =>
    /\ call.result.success
    /\ call.result.score * 10 <= call.maxScore * 6
    /\ call.maxScore * 6 < (call.result.score + 1) * 10
    /\ call.result.reason = StrVal(call.r)
    /\ (call.maxScore = 30 /\ call.r = 2) =>
         (call.result.score = 18 /\ call.result.reason = StrVal(2))

\* {"score": , "reason": "x"} with maxScore 30 gave (18, x)
C11_Witness ==
  /\ call.returned /\ call.shape = "broken" /\ call.maxScore = 30 /\ call.r = 2
  /\ CallText = <<LB, QSK, COMMA, QRK, Str(2), RB>>
  /\ ~Strategy1(CallText).found /\ ~Strategy2(CallText).found
  /\ ~Strategy3(CallText).found
  /\ call.result.score = 18 /\ call.result.reason = StrVal(2)

\* C12: for every maxScore, every integer s and every non-empty reason r,
\* the text {"score": s, "reason": "r"} gives a success with the score
\* max(0, min(maxScore, s)) and the reason r.
C12_ClampedObject ==
  (call.returned /\ call.shape = "object") =>
    /\ call.result.success
    /\ call.result.score =
         (IF call.s < 0 THEN 0 ELSE IF call.s > call.maxScore THEN call.maxScore ELSE call.s)
    /\ call.result.reason = StrVal(call.r)

\* the summary text has a line of criterion c that the pattern of c takes,
\* and the number of the first such line
SummaryHasLine(c) ==
  \E i \in 1..Len(sumGen.text) :
    /\ sumGen.text[i].label = c /\ sumGen.text[i].n # NoNumber
    /\ sumGen.text[i].max = LabelMax(c)
SummaryHasScore ==
  \E i \in 1..Len(sumGen.text) :
    sumGen.text[i].label = "SCORE" /\ sumGen.text[i].n # NoNumber
FirstLineNumber(c) ==
  LET P == {i \in 1..Len(sumGen.text) :
              /\ sumGen.text[i].label = c /\ sumGen.text[i].n # NoNumber
              /\ sumGen.text[i].max = LabelMax(c)}
  IN sumGen.text[Least(P)].n
ResultsTotal ==
  results[1].score + results[2].score + results[3].score + results[4].score
\* r.reason || '評価エラー'
ReasonOrPlaceholder(r) == IF Truthy(r.reason) THEN r.reason ELSE EvalErrorReason

\* C13 as stated: when the summarization call throws, the report has the
\* sum of the result scores and each criterion's own score and reason, and
\* no generation call follows.
C13_ThrownSummaryOwnValues ==
  (ReturnedNormally /\ sumGen.threw) =>
    /\ ret.finalScore[1].n = ResultsTotal
    /\ \A i \in TaskIds :
         /\ ret.finalScore[i + 1].n = results[i].score
         /\ ret.finalScore[i + 1].reason = results[i].reason
    /\ sumCalls = 1 /\ \A i \in TaskIds : calls[i] = 1

\* C13: when the summarization call throws, the report has the sum of the
\* result scores, each criterion's own score, and its reason or, where
\* that reason is empty (a failed generation), the fixed 評価エラー; no
\* generation call follows the failure.
C13_ThrownSummaryLocalValues ==
  (ReturnedNormally /\ sumGen.threw) =>
    /\ ret.finalScore[1].n = ResultsTotal
    /\ \A i \in TaskIds :
         /\ ret.finalScore[i + 1].n = results[i].score
         /\ ret.finalScore[i + 1].reason = ReasonOrPlaceholder(results[i])
    /\ sumCalls = 1 /\ \A i \in TaskIds : calls[i] = 1

\* the summarization threw after one task failed and another succeeded
C13_Witness ==
  /\ pc = "done" /\ ReturnedNormally /\ sumGen.threw
  /\ \E i, j \in TaskIds :
       /\ ~results[i].success /\ ret.finalScore[i + 1].reason = EvalErrorReason
       /\ results[j].score = 17 /\ ret.finalScore[j + 1].n = 17
       /\ ret.finalScore[j + 1].reason = StrVal(1)
  /\ ret.finalScore[1].n = ResultsTotal

\* C14 as stated: each field of the report whose pattern does not match
\* the summary text has the local value: the sum, the result's own score,
\* the result's stored reason, whatever the other patterns matched.
C14_UnmatchedFieldStoredValue ==
  (ret.kind = "returned" /\ sumCalls = 1 /\ ~sumGen.threw) =>
    /\ ~SummaryHasScore => ret.finalScore[1].n = ResultsTotal
    /\ \A i \in TaskIds : ~SummaryHasLine(Criteria[i]) =>
         /\ ret.finalScore[i + 1].n = results[i].score
         /\ ret.finalScore[i + 1].reason = results[i].reason

\* C14: each field of the report whose pattern does not match the summary
\* text has the local value, whatever the other patterns matched: the sum
\* for the total, the result's own score, and the result's reason or,
\* where that reason is empty, the fixed 評価エラー.
C14_UnmatchedFieldLocalValue ==
  (ret.kind = "returned" /\ sumCalls = 1 /\ ~sumGen.threw) =>
    /\ ~SummaryHasScore => ret.finalScore[1].n = ResultsTotal
    /\ \A i \in TaskIds : ~SummaryHasLine(Criteria[i]) =>
         /\ ret.finalScore[i + 1].n = results[i].score
         /\ ret.finalScore[i + 1].reason = ReasonOrPlaceholder(results[i])

\* the total and two criteria matched, two did not, one of them failed
C14_Witness ==
  /\ ret.kind = "returned" /\ ~sumGen.threw
  /\ SummaryHasScore /\ ret.finalScore[1].n = 999
  /\ SummaryHasLine(Criteria[1]) /\ SummaryHasLine(Criteria[3])
  /\ ~SummaryHasLine(Criteria[2]) /\ ~SummaryHasLine(Criteria[4])
  /\ ~results[2].success /\ ret.finalScore[3].reason = EvalErrorReason
  /\ results[4].score = 17 /\ ret.finalScore[5].n = 17
  /\ ret.finalScore[2].n = 7 /\ ret.finalScore[4].n = 21

\* C15: the summarization call starts only after every one of the N
\* branches has completed and produced its result, successful or failed.
C15_SummaryAfterAllBranches ==
  sumCalls > 0 =>
    \A i \in TaskIds :
      /\ branch[i] = "done"
      /\ results[i].taskId = tasks[i].taskId
      /\ \E k \in 1..Len(completed) : completed[k] = i

\* the summarization call is in flight after four branches, one of them
\* failed, completed in another order than they started
C15_Witness ==
  /\ pc = "integrating" /\ sumCalls = 1
  /\ completed = <<3, 1, 4, 2>>
  /\ \A i \in TaskIds : branch[i] = "done"
  /\ ~results[3].success /\ results[1].success

GenerationCalls == calls[1] + calls[2] + calls[3] + calls[4] + sumCalls

\* C16: the generation is called once for each dispatched task and at most
\* once for the summarization, N + 1 calls at most; a per-task call that
\* throws gives one failed result and is not made again.
C16_NoRetry ==
  /\ \A i \in TaskIds : calls[i] = (IF branch[i] = "idle" THEN 0 ELSE 1)
  /\ sumCalls <= 1
  /\ GenerationCalls <= NumTasks + 1
  /\ \A i \in TaskIds : (branch[i] = "done" /\ gens[i].threw) =>
       /\ ~results[i].success /\ results[i].taskId = tasks[i].taskId
       /\ Cardinality({k \in 1..Len(completed) : completed[k] = i}) = 1
       /\ calls[i] = 1

\* every generation call of an evaluation threw: five calls, four failed
\* results
C16_Witness ==
  /\ pc = "done" /\ ReturnedNormally /\ sumGen.threw
  /\ \A i \in TaskIds : gens[i].threw /\ ~ret.results[i].success /\ calls[i] = 1
  /\ GenerationCalls = NumTasks + 1

\* the batch of the N planned tasks, one result per task, and the fixed
\* fallback batch
IsPlannedBatch ==
  /\ ret.tasks = createEvaluationTasks
  /\ Len(ret.results) = NumTasks
  /\ \A i \in TaskIds :
       /\ ret.results[i].taskId = createEvaluationTasks[i].taskId
       /\ ret.results[i] = evaluateTask(createEvaluationTasks[i], gens[i])
  /\ Len(ret.finalScore) = NumTasks + 1
IsFallbackBatch ==
  /\ Len(ret.tasks) = 4 /\ Len(ret.results) = 4 /\ Len(ret.finalScore) = 5
  /\ \A i \in 1..4 :
       /\ ret.tasks[i].criterion = Criteria[i]
       /\ ret.tasks[i].taskId \notin {createEvaluationTasks[j].taskId : j \in TaskIds}
       /\ ret.results[i].taskId = ret.tasks[i].taskId
       /\ ret.results[i].score = 0
       /\ ~ret.results[i].success
       /\ ret.results[i].reason = BatchErrorReason
       /\ ret.finalScore[i + 1].n = 0
  /\ ret.finalScore[1].n = 0

\* C17: what evaluateHackathonIdea returns is either the results of all N
\* planned tasks with their report, or the whole fixed fallback batch, and
\* nothing in between.
C17_WholeBatch ==
  ret.kind = "returned" =>
    \/ IsPlannedBatch /\ ~IsFallbackBatch
    \/ IsFallbackBatch /\ ~IsPlannedBatch

\* the orchestration threw before the dispatch: the fallback batch
C17_Witness ==
  /\ pc = "done" /\ ReturnedFallback /\ IsFallbackBatch
  /\ \A i \in TaskIds : branch[i] = "idle"
  /\ ret.results[2].error = "timeout"

\* the evaluation of the first strategy, in the order 1 to 5, that matched
FirstEvaluation ==
  IF Strategy1(CallText).found THEN Strategy1(CallText)
  ELSE IF Strategy2(CallText).found THEN Strategy2(CallText)
  ELSE IF Strategy3(CallText).found THEN Strategy3(CallText)
  ELSE IF Strategy4(CallText, CallMax).found THEN Strategy4(CallText, CallMax)
  ELSE Strategy5(CallText)

MissingScore(v) == v.t = "undef"
NegativeScore(v) == v.t = "num" /\ v.n < 0
\* a score that is not a number: a string or an object
NonNumericScore(v) == v.t \notin {"num", "undef"}
\* a score that is not a number and does not begin with an integer
UnreadableScore(v) ==
  /\ v.t \notin {"num", "undef"}
  /\ v.t = "str" => StrParseInt(v.s[1].v) = NaN
\* the result is made of evaluation e and of nothing else
ResultMadeOf(e) ==
  /\ call.result.success
  /\ call.result.error = Absent
  /\ call.result.reason = (IF Truthy(e.reason) THEN e.reason ELSE NoReasonGiven)
  /\ call.result.reason # ParseErrorReason

C19_ReportScoreIsResultScore ==
  ret.kind = "returned" =>
    \A i \in 1..4 :
      /\ ret.finalScore[i + 1].n = ret.results[i].score
      /\ ret.finalScore[i + 1].n \in 0..ret.results[i].maxScore

\* C19: for every criterion, the score on its line of finalScore is the
\* number of the first line of the summary text that the pattern of the
\* criterion takes, whether or not it lies in [0, maxScore]; without such
\* a line, or when the summarization threw or was never called, it is the
\* score of the criterion's entry in results.
C19_ReportScoreIsResultScoreUnlessMatched ==
  ret.kind = "returned" =>
    \A i \in 1..4 :
      IF sumCalls = 1 /\ ~sumGen.threw /\ SummaryHasLine(Criteria[i])
      THEN ret.finalScore[i + 1].n = FirstLineNumber(Criteria[i])
      ELSE /\ ret.finalScore[i + 1].n = ret.results[i].score
           /\ ret.finalScore[i + 1].n \in 0..ret.results[i].maxScore

\* the summary gave feasibility 31 of 30 and had no line for theme_match
C19_Witness ==
  /\ pc = "done" /\ ReturnedNormally /\ ~sumGen.threw
  /\ SummaryHasLine("feasibility") /\ ret.finalScore[5].n = 31
  /\ ret.results[4].score = 17
  /\ ~SummaryHasLine("theme_match")
  /\ ret.finalScore[2].n = ret.results[1].score

\* C20: whichever generation calls throw, per-criterion or summarization,
\* evaluateHackathonIdea returns the tasks and the results of the N planned
\* tasks; the fallback batch is returned only when no generation call was
\* made.
C20_FailuresKeepPlannedBatch ==
  /\ (pc = "done" /\ ((\E i \in TaskIds : gens[i].threw) \/ sumGen.threw)) =>
       /\ ret.kind = "returned"
       /\ ret.tasks = createEvaluationTasks
       /\ \A i \in TaskIds :
            ret.results[i] = evaluateTask(createEvaluationTasks[i], gens[i])
       /\ ret # FallbackBatch(sumGen.err)
  /\ (ret.kind = "returned" /\ ret.tasks = fallbackTasks) =>
       /\ \A i \in TaskIds : calls[i] = 0 /\ ~gens[i].threw
       /\ sumCalls = 0 /\ ~sumGen.threw

\* three of the per-criterion calls and the summarization call threw
C20_Witness ==
  /\ pc = "done" /\ ret.kind = "returned" /\ sumGen.threw
  /\ gens[1].threw /\ gens[2].threw /\ ~gens[3].threw /\ gens[4].threw
  /\ ret.tasks = createEvaluationTasks
  /\ ~ret.results[1].success /\ ret.results[3].success
  /\ ret.results[3].score = 17

====
